---- MODULE Spec2Model ----
(***************************************************************************)
(* Model of the exchange-rate server's shared rate cache                   *)
(* (src/server/main.go): getRates, fetchFrankfurter, filterRates and the   *)
(* sync.RWMutex that guards the package-level cache.                       *)
(*                                                                         *)
(* Time is counted in minutes (cacheTTL = 5 * time.Minute).  Every caller  *)
(* is one goroutine serving one inbound request at a time; a caller that   *)
(* has returned may call again.  Each step of a caller is one access to    *)
(* the shared cache or to the lock, so that every interleaving the Go      *)
(* scheduler allows is an interleaving of the model.                       *)
(*                                                                         *)
(* A step may take any amount of time.  The http.Client's 8 s Timeout      *)
(* (line 22) bounds only the upstream call and shows as a transport error  *)
(* of fetchFrankfurter; it puts no bound on how long a caller waits for    *)
(* the lock.                                                               *)
(***************************************************************************)
EXTENDS Integers, Sequences, FiniteSets, TLC

\* ------------------------------------------------------------- bounds
NumCallers == 2
MaxTime == 6
MaxFetches == 2

\* ---------------------------------------------------------- constants
cacheTTL == 5
StatusOK == 200

Callers == 1..NumCallers
NoCaller == 0

\* Callers are interchangeable goroutines.  The times of a call's freshness
\* checks and the outcome of its previous call are recorded for the callers
\* in Observed only; the other callers are the concurrent load around them.
Observed == {1}

\* time.Time{}: the zero time, far before every clock reading.
ZeroTime == -1

targetCurrencies == <<"CNY", "SEK", "EUR">>

Codes == {"CNY", "SEK", "EUR", "JPY"}

\* ------------------------------------------------------------ Go maps
EmptyMap == [x \in {} |-> 0]
\* a nil map[string]float64 (distinct from an empty, non-nil map)
NilMap == [x \in {"<nil>"} |-> 0]

Put(m, k, v) == [x \in (DOMAIN m) \cup {k} |-> IF x = k THEN v ELSE m[x]]

\* ----------------------------------------------------------- upstream
\* Rates are scaled integers; Quote(S) is the upstream's mapping over the
\* codes S.
Unit(code) ==
    CASE code = "CNY" -> 70
      [] code = "SEK" -> 100
      [] code = "EUR" -> 10
      [] OTHER -> 150

Quote(S) == [code \in S |-> Unit(code)]

UpstreamKeySets ==
    { Codes, {"CNY", "SEK", "JPY"} }

UpstreamRates == { Quote(S) : S \in UpstreamKeySets }

\* What the upstream may answer to one request: a transport failure, or a
\* response with a status, a body that decodes or not, and the decoded base
\* and rates.
Responses ==
    [ transportOK : BOOLEAN,
      status      : {StatusOK, 503},
      decodable   : BOOLEAN,
      base        : {"USD", "EUR"},
      rates       : UpstreamRates ]

\* The methods a request may carry.
Methods == {"GET", "POST"}

\* The methods of the requests of a scenario.
RequestMethods(s) == IF s = "http" THEN Methods ELSE {"GET"}

\* error values
NoErr == "nil"
ErrTransport == "transport error"
ErrStatus == "frankfurter responded with status"
ErrDecode == "decode error"
ErrBase == "unexpected base currency in response"

\* *frankfurterResponse; src is a history tag: the Fetcher invocation that
\* produced the payload (0 for nil).
NilPayload == [isNil |-> TRUE, base |-> "", rates |-> EmptyMap, src |-> 0]

MkPayload(base, rates, src) ==
    [isNil |-> FALSE, base |-> base, rates |-> rates, src |-> src]

VARIABLES
    now,        \* the wall clock (time.Now), in minutes since process start
    cache,      \* rateCache: [payload, fetchedAt]
    stampSrc,   \* history: the invocation whose completion time is in cache.fetchedAt
    readers,    \* callers holding cache.mu for reading
    writer,     \* the caller holding or pending on cache.mu for writing
    pc,         \* each caller's position in getRates
    loc,        \* each caller's locals payload, fetchedAt (lines 101)
    ret,        \* each caller's return values (rates, fetchedAt, err)
    hist,       \* history of each caller's current call
    times,      \* history: the check times of each observed caller's current call
    prev,       \* history of each caller's previous, completed call
    fetchCount, \* history: Fetcher invocations started
    okCount,    \* history: Fetcher invocations that succeeded
    failCount,  \* history: Fetcher invocations that failed
    lastOkAt,   \* history: completion time of the last successful invocation
    herd,       \* history, kept in the herd scenario: every call so far started
                \* on an empty cache, within one cacheTTL of the process's start
    scenario,   \* what the callers do, and which history is kept:
                \* "serve": callers send GETs again and again; kept are the
                \* time a call issued its request and the snapshot that was
                \* fresh when an observed caller's call arrived;
                \* "pairs": the same callers; kept is what an observed
                \* caller's previous call did;
                \* "herd": every caller makes one call and leaves;
                \* "http": as "serve", with requests of other methods too;
                \* kept is the response to an observed caller's last request;
                \* "ctx": as "herd", and an observed caller's request context
                \* may be done (deadline passed, client gone) before the call
                \* returns; kept is the time a call issued its request
    ctx,        \* r.Context() of each caller's request: the time it is done
    reply       \* what handleAllRate wrote to an observed caller's last request

vars == << now, cache, stampSrc, readers, writer, pc, loc, ret, hist, times, prev,
           fetchCount, okCount, failCount, lastOkAt, herd, scenario, ctx, reply >>

\* ------------------------------------------------------------ helpers

\* time.Since(t); the difference to the zero time saturates far above cacheTTL
Since(t) == IF t = ZeroTime THEN cacheTTL + MaxTime + 1 ELSE now - t

\* mutant: a snapshot aged exactly cacheTTL still counts as fresh
FreshInclusive(payload, fetchedAt) ==
    (~payload.isNil) /\ Since(fetchedAt) <= cacheTTL

\* mutant: a snapshot stops being fresh one minute early
FreshEarly(payload, fetchedAt) ==
    (~payload.isNil) /\ Since(fetchedAt) < cacheTTL - 1

\* cache.payload != nil && time.Since(cache.fetchedAt) < cacheTTL
Fresh(payload, fetchedAt) == (~payload.isNil) /\ Since(fetchedAt) < cacheTTL

\* line 89: the check under the read lock
FreshAtRLock == Fresh(cache.payload, cache.fetchedAt)

\* mutant: the re-check under the exclusive lock is missing
NoRecheck == FALSE

\* line 97: the re-check under the exclusive lock
FreshAtLock == Fresh(cache.payload, cache.fetchedAt)

RECURSIVE filterLoop(_, _, _)
filterLoop(rates, i, result) ==
    IF i > Len(targetCurrencies)
    THEN result
    ELSE LET code == targetCurrencies[i]
         IN  filterLoop(rates, i + 1,
                        IF code \in DOMAIN rates
                        THEN Put(result, code, rates[code])
                        ELSE result)

\* mutant: the upstream mapping is returned unfiltered
FilterNothing(payload) == payload.rates

filterRates(payload) == filterLoop(payload.rates, 1, EmptyMap)

\* fetchFrankfurter's result for one upstream answer: the payload (tagged
\* with the invocation id) or the first error on the way.
FetchFail(err) == [payload |-> NilPayload, err |-> err]

\* mutant: the base of the decoded payload is not looked at
fetchFrankfurterAnyBase(resp, id) ==
    IF ~resp.transportOK THEN FetchFail(ErrTransport)
    ELSE IF resp.status # StatusOK THEN FetchFail(ErrStatus)
    ELSE IF ~resp.decodable THEN FetchFail(ErrDecode)
    ELSE [payload |-> MkPayload(resp.base, resp.rates, id), err |-> NoErr]

fetchFrankfurter(resp, id) ==
    IF ~resp.transportOK THEN FetchFail(ErrTransport)
    ELSE IF resp.status # StatusOK THEN FetchFail(ErrStatus)
    ELSE IF ~resp.decodable THEN FetchFail(ErrDecode)
    ELSE IF resp.base # "USD" THEN FetchFail(ErrBase)
    ELSE [payload |-> MkPayload(resp.base, resp.rates, id), err |-> NoErr]

\* line 103: return nil, time.Time{}, err
ErrorReturn(err) ==
    [rates |-> NilMap, fetchedAt |-> ZeroTime, err |-> err,
     ratesSrc |-> 0, stampSrc |-> 0]

NoReturn == ErrorReturn(NoErr)

NoLoc == [payload |-> NilPayload, fetchedAt |-> ZeroTime]

NoHist ==
    [ path |-> "none",    \* fast | recheck | fetched | failed
      fetches |-> 0,      \* Fetcher invocations made by this call
      fid |-> 0,          \* id of the invocation made by this call
      issued |-> -1,      \* time the invocation's request was issued
      saved |-> [payload |-> NilPayload, fetchedAt |-> ZeroTime] ]
                          \* the cache when the exclusive lock was acquired

\* times recorded for an observed caller's current call
NoTimes ==
    [ t0 |-> -1,    \* time of the first freshness check (line 89)
      tc |-> -1,    \* time of the freshness check that passed, if one did
      fa |-> -1 ]   \* fetchedAt of the snapshot that was fresh when the call
                    \* reached RLock (line 88), if one was

NoPrev == [valid |-> FALSE, path |-> "none", t0 |-> -1, fetchedAt |-> ZeroTime,
           okSeen |-> 0]

\* A context that is never done.
NoDeadline == -1

\* The times at which the context of a request that arrives now may be done:
\* never, or a minute from now.  Only an observed caller's context is ever
\* done, and only in the "ctx" scenario; every other request's context
\* outlives the request.
Deadlines(c) ==
    IF scenario = "ctx" /\ c \in Observed /\ now < MaxTime
    THEN {NoDeadline, now + 1}
    ELSE {NoDeadline}

\* <-ctx.Done() is ready
Done(c) == ctx[c] # NoDeadline /\ now >= ctx[c]

\* Time.UTC(): the same instant, with the location set to UTC
UTC(t) == t

\* no response written
NoReply ==
    [status |-> 0, text |-> "", base |-> "", updatedAt |-> ZeroTime,
     rates |-> NilMap]

\* lines 64: http.Error(w, "method not allowed", http.StatusMethodNotAllowed)
MethodNotAllowed ==
    [status |-> 405, text |-> "method not allowed", base |-> "",
     updatedAt |-> ZeroTime, rates |-> NilMap]

\* mutant: the handler answers 200 with an empty body when getRates failed
RespondOkAlways(result) ==
    [status |-> StatusOK, text |-> "", base |-> "USD",
     updatedAt |-> UTC(result.fetchedAt), rates |-> result.rates]

\* handleAllRate, lines 69-84: the response to a GET, from what getRates
\* returned.  The first write of the encoder sends the implicit status 200.
Respond(result) ==
    IF result.err # NoErr
    THEN [status |-> 502, text |-> "failed to fetch rates", base |-> "",
          updatedAt |-> ZeroTime, rates |-> NilMap]
    ELSE [status |-> StatusOK, text |-> "", base |-> "USD",
          updatedAt |-> UTC(result.fetchedAt), rates |-> result.rates]

\* the response kept for an observed caller in the "http" scenario
Written(c, r) == IF scenario = "http" /\ c \in Observed THEN r ELSE NoReply

\* where a caller is after getRates returned: ready to call again, or gone
Returned == IF scenario \in {"herd", "ctx"} THEN "gone" ELSE "idle"

\* a record of times, kept for observed callers only
Noted(c, t) == IF c \in Observed THEN t ELSE NoTimes

\* mutant: RLock lets a reader in while a writer holds or waits for the lock
RLockIgnoresWriter == TRUE

\* sync.RWMutex: a reader enters unless a writer holds or is pending
CanRLock == writer = NoCaller

\* mutant: Lock does not wait for the readers that hold the lock
LockIgnoresReaders == TRUE

\* sync.RWMutex.Lock: the pending writer proceeds once the readers drained
ReadersDrained == readers = {}

\* callers blocked in RLock behind the writer
Blocked == { c \in Callers : pc[c] = "rblocked" }

TypeOK ==
    /\ now \in 0..MaxTime
    /\ readers \subseteq Callers
    /\ writer \in Callers \cup {NoCaller}
    /\ fetchCount \in 0..MaxFetches
    /\ herd \in BOOLEAN
    /\ scenario \in {"serve", "pairs", "herd", "http", "ctx"}
    /\ ctx \in [Callers -> {NoDeadline} \cup (0..MaxTime)]

InitIn(s) ==
    /\ now = 0
    /\ cache = [payload |-> NilPayload, fetchedAt |-> ZeroTime]
    /\ stampSrc = 0
    /\ readers = {}
    /\ writer = NoCaller
    /\ pc = [c \in Callers |-> "idle"]
    /\ loc = [c \in Callers |-> NoLoc]
    /\ ret = [c \in Callers |-> NoReturn]
    /\ hist = [c \in Callers |-> NoHist]
    /\ times = [c \in Callers |-> NoTimes]
    /\ prev = [c \in Callers |-> NoPrev]
    /\ fetchCount = 0
    /\ okCount = 0
    /\ failCount = 0
    /\ lastOkAt = -1
    /\ herd = TRUE
    /\ scenario = s
    /\ ctx = [c \in Callers |-> NoDeadline]
    /\ reply = [c \in Callers |-> NoReply]

\* The process has started: var cache = &rateCache{} (line 37).
Init == InitIn("serve")

\* ------------------------------------------------------------ actions

\* The clock advances.
Tick ==
    /\ now < MaxTime
    /\ now' = now + 1
    /\ UNCHANGED << cache, stampSrc, readers, writer, pc, loc, ret, hist, times, prev,
                    fetchCount, okCount, failCount, lastOkAt, herd, scenario, ctx, reply >>

\* handleAllRate receives a request (line 62).  A request that is not a GET
\* is answered 405 (lines 63-66).  A GET enters getRates with the request's
\* context (line 68) and reaches cache.mu.RLock() (line 88): it takes the read
\* lock, or blocks behind a holding or pending writer.
Call(c) ==
    /\ pc[c] = "idle"
    /\ \E method \in RequestMethods(scenario) :
         IF method # "GET"
         THEN /\ reply' = [reply EXCEPT ![c] = Written(c, MethodNotAllowed)]
              /\ UNCHANGED << readers, pc, herd, ctx, times >>
         ELSE /\ reply' = [reply EXCEPT ![c] = NoReply]
              /\ times' = [times EXCEPT ![c] =
                             Noted(c, [NoTimes EXCEPT !.fa =
                                         IF /\ scenario = "serve"
                                            /\ Fresh(cache.payload, cache.fetchedAt)
                                         THEN cache.fetchedAt ELSE -1])]
              /\ \E d \in Deadlines(c) : ctx' = [ctx EXCEPT ![c] = d]
              /\ herd' = IF scenario = "herd"
                         THEN herd /\ cache.payload.isNil /\ now < cacheTTL
                         ELSE herd
              /\ IF CanRLock
                 THEN /\ readers' = readers \cup {c}
                      /\ pc' = [pc EXCEPT ![c] = "check1"]
                 ELSE /\ readers' = readers
                      /\ pc' = [pc EXCEPT ![c] = "rblocked"]
    /\ UNCHANGED << now, cache, stampSrc, writer, loc, ret, hist, prev,
                    fetchCount, okCount, failCount, lastOkAt, scenario >>

\* Line 89, fresh: the fast path is taken.
Check1Fresh(c) ==
    /\ pc[c] = "check1"
    /\ FreshAtRLock
    /\ hist' = [hist EXCEPT ![c].path = "fast"]
    /\ times' = [times EXCEPT ![c] = Noted(c, [@ EXCEPT !.t0 = now, !.tc = now])]
    /\ pc' = [pc EXCEPT ![c] = "fastRates"]
    /\ UNCHANGED << now, cache, stampSrc, readers, writer, loc, ret, prev,
                    fetchCount, okCount, failCount, lastOkAt, herd, scenario, ctx, reply >>

\* Line 89, stale or absent, and line 93: cache.mu.RUnlock().
Check1Stale(c) ==
    /\ pc[c] = "check1"
    /\ ~FreshAtRLock
    /\ times' = [times EXCEPT ![c] = Noted(c, [@ EXCEPT !.t0 = now])]
    /\ readers' = readers \ {c}
    /\ pc' = [pc EXCEPT ![c] = "lock"]
    /\ UNCHANGED << now, cache, stampSrc, writer, loc, ret, hist, prev,
                    fetchCount, okCount, failCount, lastOkAt, herd, scenario, ctx, reply >>

\* Line 91, first operand: filterRates(cache.payload).
FastRates(c) ==
    /\ pc[c] = "fastRates"
    /\ ret' = [ret EXCEPT ![c].rates = filterRates(cache.payload),
                          ![c].ratesSrc = cache.payload.src]
    /\ pc' = [pc EXCEPT ![c] = "fastStamp"]
    /\ UNCHANGED << now, cache, stampSrc, readers, writer, loc, hist, times, prev,
                    fetchCount, okCount, failCount, lastOkAt, herd, scenario, ctx, reply >>

\* Line 91, second operand: cache.fetchedAt.  The return values are set.
FastStamp(c) ==
    /\ pc[c] = "fastStamp"
    /\ ret' = [ret EXCEPT ![c].fetchedAt = cache.fetchedAt,
                          ![c].stampSrc = stampSrc]
    /\ pc' = [pc EXCEPT ![c] = "rexit"]
    /\ UNCHANGED << now, cache, stampSrc, readers, writer, loc, hist, times, prev,
                    fetchCount, okCount, failCount, lastOkAt, herd, scenario, ctx, reply >>

\* What a returning call leaves behind for an observed caller's next call:
\* of a successful call its path, the time of its first check and the
\* fetchedAt it returned; of a failed call the number of successful
\* invocations so far.
Remember(c) ==
    IF scenario # "pairs" \/ c \notin Observed THEN NoPrev
    ELSE IF ret[c].err = NoErr
    THEN [valid |-> TRUE, path |-> hist[c].path, t0 |-> times[c].t0,
          fetchedAt |-> ret[c].fetchedAt, okSeen |-> 0]
    ELSE [valid |-> TRUE, path |-> hist[c].path, t0 |-> -1,
          fetchedAt |-> ZeroTime, okSeen |-> okCount]

\* The deferred cache.mu.RUnlock() (line 90) runs, getRates returns and
\* handleAllRate writes the response (lines 69-84).
RExit(c) ==
    /\ pc[c] = "rexit"
    /\ readers' = readers \ {c}
    /\ prev' = [prev EXCEPT ![c] = Remember(c)]
    /\ pc' = [pc EXCEPT ![c] = Returned]
    /\ ret' = [ret EXCEPT ![c] = NoReturn]
    /\ hist' = [hist EXCEPT ![c] = NoHist]
    /\ times' = [times EXCEPT ![c] = NoTimes]
    /\ ctx' = [ctx EXCEPT ![c] = NoDeadline]
    /\ reply' = [reply EXCEPT ![c] = Written(c, Respond(ret[c]))]
    /\ UNCHANGED << now, cache, stampSrc, writer, loc,
                    fetchCount, okCount, failCount, lastOkAt, herd, scenario >>

\* Line 95, cache.mu.Lock(): the caller becomes the pending writer; from
\* now on new readers block.
LockPending(c) ==
    /\ pc[c] = "lock"
    /\ writer = NoCaller
    /\ writer' = c
    /\ pc' = [pc EXCEPT ![c] = "lockWait"]
    /\ UNCHANGED << now, cache, stampSrc, readers, loc, ret, hist, times, prev,
                    fetchCount, okCount, failCount, lastOkAt, herd, scenario, ctx, reply >>

\* Line 95 returns: the readers that held the lock have left.
LockGranted(c) ==
    /\ pc[c] = "lockWait"
    /\ writer = c
    /\ ReadersDrained
    /\ hist' = [hist EXCEPT ![c].saved = cache]
    /\ pc' = [pc EXCEPT ![c] = "check2"]
    /\ UNCHANGED << now, cache, stampSrc, readers, writer, loc, ret, times, prev,
                    fetchCount, okCount, failCount, lastOkAt, herd, scenario, ctx, reply >>

\* Line 97, fresh: another caller refreshed while this one waited.
Check2Fresh(c) ==
    /\ pc[c] = "check2"
    /\ FreshAtLock
    /\ hist' = [hist EXCEPT ![c].path = "recheck"]
    /\ times' = [times EXCEPT ![c] = Noted(c, [@ EXCEPT !.tc = now])]
    /\ pc' = [pc EXCEPT ![c] = "slowReturn"]
    /\ UNCHANGED << now, cache, stampSrc, readers, writer, loc, ret, prev,
                    fetchCount, okCount, failCount, lastOkAt, herd, scenario, ctx, reply >>

\* Line 97, still stale, and line 101: fetchFrankfurter is invoked and
\* issues its one request (line 118).
Check2Stale(c) ==
    /\ pc[c] = "check2"
    /\ ~FreshAtLock
    /\ fetchCount < MaxFetches
    /\ fetchCount' = fetchCount + 1
    /\ hist' = [hist EXCEPT ![c].fetches = @ + 1,
                            ![c].fid = fetchCount + 1,
                            ![c].issued = IF scenario \in {"serve", "ctx"}
                                          THEN now ELSE -1]
    /\ pc' = [pc EXCEPT ![c] = "await"]
    /\ UNCHANGED << now, cache, stampSrc, readers, writer, loc, ret, times, prev,
                    okCount, failCount, lastOkAt, herd, scenario, ctx, reply >>

\* mutant: a call served by the re-check renews the snapshot's fetchedAt
SlowReturnRenews(c) ==
    /\ pc[c] = "slowReturn"
    /\ ret' = [ret EXCEPT ![c] =
                 [rates |-> filterRates(cache.payload),
                  fetchedAt |-> cache.fetchedAt,
                  err |-> NoErr,
                  ratesSrc |-> cache.payload.src,
                  stampSrc |-> stampSrc]]
    /\ cache' = [cache EXCEPT !.fetchedAt = now]
    /\ pc' = [pc EXCEPT ![c] = "wexit"]
    /\ UNCHANGED << now, stampSrc, readers, writer, loc, hist, times, prev,
                    fetchCount, okCount, failCount, lastOkAt, herd, scenario,
                    ctx, reply >>

\* Line 98: return filterRates(cache.payload), cache.fetchedAt, nil
SlowReturn(c) ==
    /\ pc[c] = "slowReturn"
    /\ ret' = [ret EXCEPT ![c] =
                 [rates |-> filterRates(cache.payload),
                  fetchedAt |-> cache.fetchedAt,
                  err |-> NoErr,
                  ratesSrc |-> cache.payload.src,
                  stampSrc |-> stampSrc]]
    /\ pc' = [pc EXCEPT ![c] = "wexit"]
    /\ UNCHANGED << now, cache, stampSrc, readers, writer, loc, hist, times, prev,
                    fetchCount, okCount, failCount, lastOkAt, herd, scenario, ctx, reply >>

\* mutant: the Fetcher reads the clock when it issues the request
FetchOkIssueTime(c) ==
    /\ pc[c] = "await"
    /\ ~Done(c)
    /\ \E resp \in Responses :
         LET r == fetchFrankfurter(resp, hist[c].fid)
         IN  /\ r.err = NoErr
             /\ loc' = [loc EXCEPT ![c] = [payload |-> r.payload,
                                           fetchedAt |-> hist[c].issued]]
    /\ okCount' = okCount + 1
    /\ lastOkAt' = now
    /\ pc' = [pc EXCEPT ![c] = "store1"]
    /\ UNCHANGED << now, cache, stampSrc, readers, writer, ret, hist, times, prev,
                    fetchCount, failCount, herd, scenario, ctx, reply >>

\* Lines 118-135 and 102: the upstream answered and the Fetcher succeeded;
\* its time.Now() is read on completion.  The request was made with the
\* caller's context (line 113): once that is done, httpClient.Do and the
\* read of the body fail.
FetchOk(c) ==
    /\ pc[c] = "await"
    /\ ~Done(c)
    /\ \E resp \in Responses :
         LET r == fetchFrankfurter(resp, hist[c].fid)
         IN  /\ r.err = NoErr
             /\ loc' = [loc EXCEPT ![c] = [payload |-> r.payload, fetchedAt |-> now]]
    /\ okCount' = okCount + 1
    /\ lastOkAt' = now
    /\ pc' = [pc EXCEPT ![c] = "store1"]
    /\ UNCHANGED << now, cache, stampSrc, readers, writer, ret, hist, times, prev,
                    fetchCount, failCount, herd, scenario, ctx, reply >>

\* mutant: the failure is remembered as if it were a snapshot fetched now
FetchFailedCached(c) ==
    /\ pc[c] = "await"
    /\ \E resp \in Responses :
         LET r == fetchFrankfurter(resp, hist[c].fid)
         IN  /\ r.err # NoErr
             /\ ret' = [ret EXCEPT ![c] = ErrorReturn(r.err)]
    /\ cache' = [payload |-> MkPayload("USD", EmptyMap, hist[c].fid),
                 fetchedAt |-> now]
    /\ stampSrc' = hist[c].fid
    /\ failCount' = failCount + 1
    /\ hist' = [hist EXCEPT ![c].path = "failed"]
    /\ pc' = [pc EXCEPT ![c] = "wexit"]
    /\ UNCHANGED << now, readers, writer, loc, times, prev,
                    fetchCount, okCount, lastOkAt, herd, scenario, ctx, reply >>

\* mutant: the Fetcher's nil payload and zero time are stored before the
\* error is looked at
FetchFailedClears(c) ==
    /\ pc[c] = "await"
    /\ \E resp \in Responses :
         LET r == fetchFrankfurter(resp, hist[c].fid)
         IN  /\ r.err # NoErr
             /\ ret' = [ret EXCEPT ![c] = ErrorReturn(r.err)]
    /\ cache' = [payload |-> NilPayload, fetchedAt |-> ZeroTime]
    /\ stampSrc' = 0
    /\ failCount' = failCount + 1
    /\ hist' = [hist EXCEPT ![c].path = "failed"]
    /\ pc' = [pc EXCEPT ![c] = "wexit"]
    /\ UNCHANGED << now, readers, writer, loc, times, prev,
                    fetchCount, okCount, lastOkAt, herd, scenario, ctx, reply >>

\* mutant: after a failure the call goes back to fetch once more
FetchFailedRetries(c) ==
    /\ pc[c] = "await"
    /\ \E resp \in Responses :
         fetchFrankfurter(resp, hist[c].fid).err # NoErr
    /\ failCount' = failCount + 1
    /\ pc' = [pc EXCEPT ![c] = "check2"]
    /\ UNCHANGED << now, cache, stampSrc, readers, writer, loc, ret, hist, times,
                    prev, fetchCount, okCount, lastOkAt, herd, scenario, ctx,
                    reply >>

\* mutant: the failure path returns without running the deferred Unlock
FetchFailedLeaks(c) ==
    /\ pc[c] = "await"
    /\ \E resp \in Responses :
         fetchFrankfurter(resp, hist[c].fid).err # NoErr
    /\ failCount' = failCount + 1
    /\ hist' = [hist EXCEPT ![c] = NoHist]
    /\ ctx' = [ctx EXCEPT ![c] = NoDeadline]
    /\ pc' = [pc EXCEPT ![c] = Returned]
    /\ UNCHANGED << now, cache, stampSrc, readers, writer, loc, ret, times, prev,
                    fetchCount, okCount, lastOkAt, herd, scenario, reply >>

\* Lines 118-135 and 102-104: the Fetcher failed; getRates returns its
\* error.  Once the caller's context is done the failure is the transport's.
FetchFailed(c) ==
    /\ pc[c] = "await"
    /\ \E resp \in Responses :
         LET r == fetchFrankfurter(resp, hist[c].fid)
         IN  /\ r.err # NoErr
             /\ Done(c) => ~resp.transportOK
             /\ ret' = [ret EXCEPT ![c] = ErrorReturn(r.err)]
    /\ failCount' = failCount + 1
    /\ hist' = [hist EXCEPT ![c].path = "failed"]
    /\ pc' = [pc EXCEPT ![c] = "wexit"]
    /\ UNCHANGED << now, cache, stampSrc, readers, writer, loc, times, prev,
                    fetchCount, okCount, lastOkAt, herd, scenario, ctx, reply >>

\* Line 106: cache.payload = payload
StorePayload(c) ==
    /\ pc[c] = "store1"
    /\ cache' = [cache EXCEPT !.payload = loc[c].payload]
    /\ pc' = [pc EXCEPT ![c] = "store2"]
    /\ UNCHANGED << now, stampSrc, readers, writer, loc, ret, hist, times, prev,
                    fetchCount, okCount, failCount, lastOkAt, herd, scenario, ctx, reply >>

\* Line 107: cache.fetchedAt = fetchedAt
StoreFetchedAt(c) ==
    /\ pc[c] = "store2"
    /\ cache' = [cache EXCEPT !.fetchedAt = loc[c].fetchedAt]
    /\ stampSrc' = hist[c].fid
    /\ pc' = [pc EXCEPT ![c] = "return"]
    /\ UNCHANGED << now, readers, writer, loc, ret, hist, times, prev,
                    fetchCount, okCount, failCount, lastOkAt, herd, scenario, ctx, reply >>

\* Line 109: return filterRates(payload), cache.fetchedAt, nil
FetchedReturn(c) ==
    /\ pc[c] = "return"
    /\ ret' = [ret EXCEPT ![c] =
                 [rates |-> filterRates(loc[c].payload),
                  fetchedAt |-> cache.fetchedAt,
                  err |-> NoErr,
                  ratesSrc |-> loc[c].payload.src,
                  stampSrc |-> stampSrc]]
    /\ hist' = [hist EXCEPT ![c].path = "fetched"]
    /\ pc' = [pc EXCEPT ![c] = "wexit"]
    /\ UNCHANGED << now, cache, stampSrc, readers, writer, loc, times, prev,
                    fetchCount, okCount, failCount, lastOkAt, herd, scenario, ctx, reply >>

\* The deferred cache.mu.Unlock() (line 96) runs, getRates returns and
\* handleAllRate writes the response (lines 69-84): the readers blocked
\* behind the writer all enter, and the mutex is free for the next writer.
WExit(c) ==
    /\ pc[c] = "wexit"
    /\ writer' = NoCaller
    /\ readers' = readers \cup Blocked
    /\ prev' = [prev EXCEPT ![c] = Remember(c)]
    /\ pc' = [d \in Callers |-> IF d = c THEN Returned
                                ELSE IF pc[d] = "rblocked" THEN "check1"
                                ELSE pc[d]]
    /\ ret' = [ret EXCEPT ![c] = NoReturn]
    /\ loc' = [loc EXCEPT ![c] = NoLoc]
    /\ hist' = [hist EXCEPT ![c] = NoHist]
    /\ times' = [times EXCEPT ![c] = NoTimes]
    /\ ctx' = [ctx EXCEPT ![c] = NoDeadline]
    /\ reply' = [reply EXCEPT ![c] = Written(c, Respond(ret[c]))]
    /\ UNCHANGED << now, cache, stampSrc,
                    fetchCount, okCount, failCount, lastOkAt, herd, scenario >>

Next ==
    \/ Tick
    \/ \E c \in Callers : Call(c)
    \/ \E c \in Callers : Check1Fresh(c)
    \/ \E c \in Callers : Check1Stale(c)
    \/ \E c \in Callers : FastRates(c)
    \/ \E c \in Callers : FastStamp(c)
    \/ \E c \in Callers : RExit(c)
    \/ \E c \in Callers : LockPending(c)
    \/ \E c \in Callers : LockGranted(c)
    \/ \E c \in Callers : Check2Fresh(c)
    \/ \E c \in Callers : Check2Stale(c)
    \/ \E c \in Callers : SlowReturn(c)
    \/ \E c \in Callers : FetchOk(c)
    \/ \E c \in Callers : FetchFailed(c)
    \/ \E c \in Callers : StorePayload(c)
    \/ \E c \in Callers : StoreFetchedAt(c)
    \/ \E c \in Callers : FetchedReturn(c)
    \/ \E c \in Callers : WExit(c)

Spec == Init /\ [][Next]_vars

\* Consecutive calls of an observed caller, amid the other callers' load.
PairsInit == InitIn("pairs")

SpecPairs == PairsInit /\ [][Next]_vars

\* The thundering herd: every caller makes one call and leaves.
HerdInit == InitIn("herd")

SpecHerd == HerdInit /\ [][Next]_vars

\* The responses handleAllRate writes to an observed caller.
HttpInit == InitIn("http")

SpecHttp == HttpInit /\ [][Next]_vars

\* Every caller makes one call; an observed caller's context may be done
\* before its call returns.
CtxInit == InitIn("ctx")

SpecCtx == CtxInit /\ [][Next]_vars

\* One step of caller c inside getRates, from RLock to the deferred unlock.
Step(c) ==
    \/ Check1Fresh(c) \/ Check1Stale(c) \/ FastRates(c) \/ FastStamp(c)
    \/ RExit(c) \/ LockPending(c) \/ LockGranted(c) \/ Check2Fresh(c)
    \/ Check2Stale(c) \/ SlowReturn(c) \/ FetchOk(c) \/ FetchFailed(c)
    \/ StorePayload(c) \/ StoreFetchedAt(c) \/ FetchedReturn(c) \/ WExit(c)

\* The Go scheduler runs every goroutine that can run, and every upstream
\* call returns (httpClient's Timeout, line 22, ends it at the latest).
Fairness == \A c \in Callers : WF_vars(Step(c))

SpecCtxFair == CtxInit /\ [][Next]_vars /\ Fairness

\* ------------------------------------------------------------- claims

\* a caller whose return values are set and whose deferred unlock is next
Exiting(c) == pc[c] \in {"rexit", "wexit"}

TargetSet == { targetCurrencies[i] : i \in 1..Len(targetCurrencies) }

C2_StalenessBound ==
    \A c \in Observed :
        Exiting(c) =>
            IF ret[c].err = NoErr
            THEN \/ /\ hist[c].path = "fetched"
                    /\ ret[c].fetchedAt = loc[c].fetchedAt
                    /\ ret[c].ratesSrc = hist[c].fid
                 \/ /\ hist[c].path \in {"fast", "recheck"}
                    /\ ret[c].ratesSrc # 0
                    /\ ret[c].fetchedAt # ZeroTime
                    /\ times[c].tc >= 0
                    /\ times[c].tc - ret[c].fetchedAt < cacheTTL
            ELSE ret[c].rates = NilMap

\* C2 witness: a call returns, from the fast path, a snapshot that was one
\* minute short of cacheTTL when it was checked.
C2_Witness ==
    \E c \in Observed :
        /\ pc[c] = "rexit"
        /\ ret[c].err = NoErr
        /\ times[c].tc - ret[c].fetchedAt = cacheTTL - 1

\* C3 as stated: a call whose first freshness check is at T0 succeeds; a
\* later call by the same caller whose first check is before T0 + cacheTTL
\* invokes no Fetcher and returns the same fetchedAt.
C3_SameWithinTTLOfCall ==
    \A c \in Observed :
        ( /\ Exiting(c)
          /\ prev[c].valid
          /\ prev[c].path # "failed"
          /\ times[c].t0 >= prev[c].t0
          /\ times[c].t0 < prev[c].t0 + cacheTTL )
        => /\ hist[c].fetches = 0
           /\ ret[c].err = NoErr
           /\ ret[c].fetchedAt = prev[c].fetchedAt

\* C3 amended: a call succeeds and returns fetchedAt F; a later call by the
\* same caller whose first freshness check is before F + cacheTTL (which
\* includes T0 + cacheTTL - epsilon when the first call got its snapshot by
\* fetching, as then F >= T0) takes the fast path: it invokes no Fetcher and
\* returns F.
C3_SameWithinTTL ==
    \A c \in Observed :
        ( /\ Exiting(c)
          /\ prev[c].valid
          /\ prev[c].path # "failed"
          /\ times[c].t0 - prev[c].fetchedAt < cacheTTL )
        => /\ hist[c].path = "fast"
           /\ hist[c].fetches = 0
           /\ ret[c].err = NoErr
           /\ ret[c].fetchedAt = prev[c].fetchedAt

\* C3 witness: the first call fetched; the second call checks one minute
\* before the first call's time plus cacheTTL and returns.
C3_Witness ==
    \E c \in Observed :
        /\ pc[c] = "rexit"
        /\ prev[c].valid
        /\ prev[c].path = "fetched"
        /\ times[c].t0 = prev[c].t0 + cacheTTL - 1
        /\ ret[c].fetchedAt = prev[c].fetchedAt

\* successful invocations made by the caller's current call
OwnOk(c) == IF hist[c].path = "fetched" THEN 1 ELSE 0

\* C4 as stated: a call whose first freshness check is at T0 succeeds by
\* fetching; a later call by the same caller whose first check is after
\* T0 + cacheTTL invokes the Fetcher and, if it succeeds, returns a later
\* fetchedAt.
C4_RefetchAfterTTLOfCall ==
    \A c \in Observed :
        ( /\ Exiting(c)
          /\ prev[c].valid
          /\ prev[c].path = "fetched"
          /\ times[c].t0 > prev[c].t0 + cacheTTL )
        => /\ hist[c].fetches = 1
           /\ (ret[c].err = NoErr => ret[c].fetchedAt > prev[c].fetchedAt)

\* C4 amended: a call succeeds and returns fetchedAt F (the time its
\* snapshot's fetch completed); a later call by the same caller whose first
\* freshness check is at F + cacheTTL or later never returns F: it invokes
\* the Fetcher itself, exactly once, or it returns without fetching the
\* snapshot of a refresh that another caller completed in the meantime; and
\* if it succeeds its fetchedAt is strictly later than F.
C4_RefetchAfterTTL ==
    \A c \in Observed :
        ( /\ Exiting(c)
          /\ prev[c].valid
          /\ prev[c].path # "failed"
          /\ times[c].t0 - prev[c].fetchedAt >= cacheTTL )
        => /\ hist[c].fetches <= 1
           /\ (hist[c].fetches = 0 => ret[c].err = NoErr)
           /\ (ret[c].err = NoErr => ret[c].fetchedAt > prev[c].fetchedAt)

\* C4 witness: the second call checked cacheTTL or more after the first
\* call's fetchedAt, fetched, and returns a later fetchedAt.
C4_Witness ==
    \E c \in Observed :
        /\ pc[c] = "wexit"
        /\ prev[c].valid
        /\ prev[c].path = "fetched"
        /\ times[c].t0 - prev[c].fetchedAt >= cacheTTL
        /\ hist[c].path = "fetched"
        /\ ret[c].fetchedAt > prev[c].fetchedAt

\* C5: a call whose refresh fails returns an error, no rates and the zero
\* time; and the caller's next call, when no refresh by anyone succeeded in
\* between, invokes the Fetcher again (neither the old snapshot nor the
\* failure is served).
C5_FailureNotCached ==
    /\ \A c \in Callers :
          (pc[c] = "wexit" /\ hist[c].path = "failed")
          => /\ ret[c].err # NoErr
             /\ ret[c].rates = NilMap
             /\ ret[c].fetchedAt = ZeroTime
    /\ \A c \in Observed :
          ( /\ Exiting(c)
            /\ prev[c].valid
            /\ prev[c].path = "failed"
            /\ okCount - OwnOk(c) = prev[c].okSeen )
          => hist[c].fetches = 1

\* C5 witness: the caller's previous call failed, no refresh succeeded
\* since, and its next call has invoked the Fetcher again (and failed again).
C5_Witness ==
    \E c \in Observed :
        /\ pc[c] = "wexit"
        /\ prev[c].valid
        /\ prev[c].path = "failed"
        /\ okCount - OwnOk(c) = prev[c].okSeen
        /\ hist[c].fetches = 1
        /\ hist[c].path = "failed"

\* C6: when a call ends with an error, the cache's snapshot and fetchedAt
\* are what they were when the call acquired the exclusive lock.
C6_UnchangedOnError ==
    \A c \in Callers :
        (pc[c] = "wexit" /\ ret[c].err # NoErr) => cache = hist[c].saved

\* C6 witness: a call ends with an error while a (stale) snapshot is held.
C6_Witness ==
    \E c \in Callers :
        /\ pc[c] = "wexit"
        /\ ret[c].err # NoErr
        /\ ~cache.payload.isNil
        /\ cache = hist[c].saved

\* C7 as stated: the only error a caller of getRates receives is the
\* normalized RatesUnavailableError, never the Fetcher's own error value.
C7_ErrorsNormalized ==
    \A c \in Callers :
        Exiting(c) => ret[c].err \in {NoErr, "RatesUnavailableError"}

\* callers with a Fetcher invocation in flight
InFlight == { c \in Callers : pc[c] = "await" }

\* a caller that holds the lock (either way) or is at an access to the cache
InCritical(c) ==
    \/ c \in readers
    \/ pc[c] \in { "check1", "fastRates", "fastStamp", "rexit", "check2",
                   "slowReturn", "await", "store1",
                   "store2", "return", "wexit" }

\* C8: at most one Fetcher invocation is in flight, and while it is, no
\* other call reads or writes the cache.
C8_RefreshExclusive ==
    /\ Cardinality(InFlight) <= 1
    /\ \A c \in InFlight : \A d \in Callers \ {c} : ~InCritical(d)

\* C8 witness: an invocation is in flight while another call is kept out.
C8_Witness ==
    \E c \in InFlight : \E d \in Callers \ {c} : pc[d] \in {"rblocked", "lock"}

\* C9: the rates and the fetchedAt of a successful return come from the same
\* Fetcher invocation.
C9_AtomicSwap ==
    \A c \in Callers :
        (Exiting(c) /\ ret[c].err = NoErr)
        => /\ ret[c].ratesSrc # 0
           /\ ret[c].ratesSrc = ret[c].stampSrc

\* C9 witness: a reader returns the second snapshot from the fast path.
C9_Witness ==
    \E c \in Callers :
        /\ pc[c] = "rexit"
        /\ ret[c].err = NoErr
        /\ ret[c].ratesSrc = 2
        /\ ret[c].stampSrc = 2

\* C10: the rates of a successful return are the upstream mapping U of the
\* snapshot restricted to the target currencies: the keys are those of U
\* that are targets, each with U's value; a missing target is left out.
C10_Filtering ==
    \A c \in Callers :
        (Exiting(c) /\ ret[c].err = NoErr)
        => LET U == cache.payload.rates
           IN  /\ cache.payload.src = ret[c].ratesSrc
               /\ DOMAIN ret[c].rates = TargetSet \cap DOMAIN U
               /\ \A k \in DOMAIN ret[c].rates : ret[c].rates[k] = U[k]

\* C10 witness: upstream offers CNY, SEK and JPY; the call returns CNY and SEK.
C10_Witness ==
    \E c \in Callers :
        /\ Exiting(c)
        /\ ret[c].err = NoErr
        /\ DOMAIN cache.payload.rates = {"CNY", "SEK", "JPY"}
        /\ DOMAIN ret[c].rates = {"CNY", "SEK"}

\* a caller that is not inside getRates
Outside(c) == pc[c] \in {"idle", "gone"}

\* C11: a caller that is outside getRates holds no lock, whichever way its
\* call returned (fast path, fresh re-check, fetch success, fetch failure,
\* context done mid-fetch); and, every Fetcher invocation returning, every
\* call that entered getRates returns (again and again no caller is inside
\* getRates), leaving the lock free for the calls that come after it.
C11_NoLeakNoDeadlock ==
    /\ [](\A c \in Callers : Outside(c) => (c \notin readers /\ writer # c))
    /\ []<>(\A c \in Callers : Outside(c))
    /\ []((\A c \in Callers : Outside(c)) => (readers = {} /\ writer = NoCaller))

\* C11 witness: an observed caller's context was done while its fetch was
\* in flight, the fetch failed with the transport's error, and the caller is
\* at its deferred Unlock while another caller waits for the lock.
C11_Witness ==
    \E c \in Observed :
        /\ pc[c] = "wexit" /\ writer = c
        /\ hist[c].path = "failed" /\ ret[c].err = ErrTransport
        /\ Done(c) /\ hist[c].issued < ctx[c]
        /\ \E d \in Callers \ {c} : pc[d] \in {"lock", "rblocked"}

\* the errors of a response that was received and rejected
Rejections == {ErrStatus, ErrDecode, ErrBase}

\* C12: a snapshot in the cache, or on its way into it, has base USD, the
\* rates of an upstream response and the tag of an invocation that succeeded;
\* and a call whose upstream response was rejected (status not 200, body
\* that does not decode, base not USD) leaves the cache as it found it,
\* holding nothing of the failed invocation.
C12_OnlyValidated ==
    /\ (~cache.payload.isNil) =>
          /\ cache.payload.base = "USD"
          /\ cache.payload.rates \in UpstreamRates
          /\ cache.payload.src \in 1..fetchCount
    /\ \A c \in Callers :
          /\ pc[c] \in {"store1", "store2", "return"} =>
                (~loc[c].payload.isNil /\ loc[c].payload.base = "USD")
          /\ (pc[c] = "wexit" /\ ret[c].err \in Rejections) =>
                /\ cache = hist[c].saved
                /\ cache.payload.src # hist[c].fid
                /\ stampSrc # hist[c].fid

\* C12 witness: a response with the wrong base was rejected while the cache
\* held an older, validated snapshot, which is still there.
C12_Witness ==
    \E c \in Callers :
        /\ pc[c] = "wexit" /\ ret[c].err = ErrBase
        /\ ~cache.payload.isNil /\ cache.payload.base = "USD"
        /\ cache = hist[c].saved

\* C13: the fetchedAt that a successful refresh stores and returns is the
\* clock reading at the moment the Fetcher completed (lastOkAt), which is
\* not before the reading at which the request was issued.
C13_FetchedAtIsCompletion ==
    \A c \in Callers :
        /\ pc[c] \in {"store1", "store2", "return"} =>
              (loc[c].fetchedAt = lastOkAt /\ hist[c].issued <= lastOkAt)
        /\ pc[c] = "return" => cache.fetchedAt = lastOkAt
        /\ (pc[c] = "wexit" /\ hist[c].path = "fetched") =>
              /\ ret[c].fetchedAt = lastOkAt
              /\ cache.fetchedAt = lastOkAt
              /\ hist[c].issued <= ret[c].fetchedAt

\* C13 witness: the clock advanced during the fetch, and the call returns
\* the later reading.
C13_Witness ==
    \E c \in Callers :
        /\ pc[c] = "wexit" /\ hist[c].path = "fetched"
        /\ hist[c].issued < lastOkAt
        /\ ret[c].fetchedAt = lastOkAt /\ cache.fetchedAt = lastOkAt

\* C14: when getRates returns to handleAllRate, the response to the GET is
\* 200 with base "USD", updatedAt equal to the returned fetchedAt and the
\* returned (filtered) rates if the call succeeded, and a 5xx status without
\* rates if it returned an error.
C14_HandlerStatus ==
    [][ \A c \in Observed :
          (Exiting(c) /\ pc'[c] # pc[c]) =>
             IF ret[c].err = NoErr
             THEN /\ reply'[c].status = 200
                  /\ reply'[c].base = "USD"
                  /\ reply'[c].updatedAt = ret[c].fetchedAt
                  /\ reply'[c].rates = ret[c].rates
                  /\ DOMAIN reply'[c].rates \subseteq TargetSet
             ELSE /\ reply'[c].status \in 500..599
                  /\ reply'[c].rates = NilMap ]_vars

\* C14 witness: an observed caller's GET was answered 502 although the cache
\* holds an older snapshot, whose refresh failed.
C14_Witness ==
    \E c \in Observed :
        /\ pc[c] = "idle"
        /\ reply[c].status = 502 /\ reply[c].rates = NilMap
        /\ ~cache.payload.isNil

\* C15: a call that took the exclusive lock invokes the Fetcher only if the
\* snapshot it found under the lock was absent or aged cacheTTL or more at
\* that moment; a call that found it fresh there (another caller refreshed
\* while it waited) returns that snapshot, with the fetchedAt that refresh
\* stored, and invokes no Fetcher.
C15_DoubleCheck ==
    \A c \in Callers :
        /\ hist[c].fetches >= 1 =>
              \/ hist[c].saved.payload.isNil
              \/ hist[c].issued - hist[c].saved.fetchedAt >= cacheTTL
        /\ (pc[c] = "wexit" /\ hist[c].path = "recheck") =>
              /\ hist[c].fetches = 0
              /\ ret[c].err = NoErr
              /\ ret[c].fetchedAt = hist[c].saved.fetchedAt
              /\ ret[c].fetchedAt = lastOkAt
              /\ ret[c].ratesSrc = ret[c].stampSrc
              /\ c \in Observed => times[c].tc - ret[c].fetchedAt < cacheTTL

\* C15 witness: an observed caller found the cache stale under the shared
\* lock, another caller's refresh completed after that, and the observed
\* caller returns that refresh's snapshot from the re-check.
C15_Witness ==
    \E c \in Observed :
        /\ pc[c] = "wexit" /\ hist[c].path = "recheck"
        /\ hist[c].fetches = 0
        /\ times[c].t0 <= ret[c].fetchedAt
        /\ ret[c].fetchedAt = lastOkAt

\* an observed caller arrived while the snapshot was fresh, and now waits
\* for the read lock behind an invocation in flight
WaitsOnFetch(c) == times[c].fa # -1 /\ pc[c] = "rblocked" /\ InFlight # {}

\* C16 as stated: while a Fetcher invocation is in flight the cache holds no
\* fresh snapshot; and a call that reached RLock while the snapshot was
\* fresh invokes no Fetcher and never waits behind an invocation in flight.
C16_FastPathOnArrival ==
    /\ InFlight # {} =>
          \/ cache.payload.isNil
          \/ now - cache.fetchedAt >= cacheTTL
    /\ \A c \in Observed :
          times[c].fa # -1 => (hist[c].fetches = 0 /\ ~WaitsOnFetch(c))

\* C16 amended: while a Fetcher invocation is in flight the cache holds no
\* fresh snapshot (none at all, or one aged cacheTTL or more); a call that
\* found the snapshot fresh under the shared lock invokes no Fetcher and
\* holds its lock at no moment at which an invocation is in flight; and a
\* call that reached RLock while the snapshot was fresh invokes the Fetcher,
\* or waits behind an invocation in flight, only after that snapshot has
\* reached the age cacheTTL.
C16_FastPathNoIO ==
    /\ InFlight # {} =>
          \/ cache.payload.isNil
          \/ now - cache.fetchedAt >= cacheTTL
    /\ \A c \in Callers :
          hist[c].path = "fast" =>
              /\ hist[c].fetches = 0
              /\ InFlight = {}
              /\ ret[c].err = NoErr
    /\ \A c \in Observed :
          /\ WaitsOnFetch(c) =>
                (cache.fetchedAt = times[c].fa /\ now - times[c].fa >= cacheTTL)
          /\ (times[c].fa # -1 /\ hist[c].fetches >= 1) =>
                hist[c].issued - times[c].fa >= cacheTTL

\* C16 witness: an observed caller reached RLock while the snapshot was
\* fresh and waits there; the snapshot has aged past cacheTTL and the
\* writer it waits behind has an invocation in flight.
C16_Witness ==
    \E c \in Observed :
        /\ WaitsOnFetch(c)
        /\ ~cache.payload.isNil
        /\ now - cache.fetchedAt >= cacheTTL

\* C17: a call invokes the Fetcher at most once; every invocation issues one
\* request and has one outcome (invocations started are those that
\* succeeded, those that failed and those in flight); and a call whose
\* invocation failed is at its return, with the error, having fetched once.
C17_NoRetry ==
    /\ \A c \in Callers :
          /\ hist[c].fetches <= 1
          /\ hist[c].path = "failed" =>
                /\ pc[c] = "wexit"
                /\ hist[c].fetches = 1
                /\ ret[c].err # NoErr
                /\ ret[c].rates = NilMap
    /\ fetchCount = okCount + failCount + Cardinality(InFlight)

\* C17 witness: a call's one invocation failed and the call is returning
\* the error; it was the only invocation so far.
C17_Witness ==
    \E c \in Callers :
        /\ pc[c] = "wexit" /\ hist[c].path = "failed"
        /\ hist[c].fetches = 1
        /\ fetchCount = 1 /\ failCount = 1

\* a caller on a path that only reads the cache: the fast path or the fresh
\* re-check
Reading(c) ==
    pc[c] \in {"check1", "fastRates", "fastStamp", "rexit", "slowReturn"}
    \/ (pc[c] = "wexit" /\ hist[c].path = "recheck")

\* C18: no step of a call on the fast path or on the fresh re-check changes
\* the cache; the cache changes only in the steps by which the holder of the
\* exclusive lock stores the result of its successful Fetcher invocation.
C18_ReadersNeverMutate ==
    [][ /\ \A c \in Callers :
             (Reading(c) /\ pc'[c] # pc[c]) => cache' = cache
        /\ cache' # cache =>
             \E c \in Callers :
                 /\ writer = c
                 /\ readers = {}
                 /\ hist[c].fetches = 1
                 /\ ~loc[c].payload.isNil
                 /\ \/ pc[c] = "store1" /\ pc'[c] = "store2"
                    \/ pc[c] = "store2" /\ pc'[c] = "return" ]_vars

\* C18 witness: a call served by the fresh re-check is at its return and
\* the cache is as it was when the call took the exclusive lock.
C18_Witness ==
    \E c \in Callers :
        /\ pc[c] = "wexit" /\ hist[c].path = "recheck"
        /\ ~cache.payload.isNil
        /\ cache = hist[c].saved
        /\ cache.fetchedAt < now

\* a caller blocked in cache.mu.Lock() (line 95) behind another caller whose
\* Fetcher invocation is in flight
BlockedBehindFetch(c) ==
    /\ pc[c] = "lock"
    /\ \E d \in Callers \ {c} : writer = d /\ pc[d] = "await"

\* C19: a caller whose context has been done for a minute or more is not
\* blocked on the exclusive lock behind another caller's in-flight fetch.
C19_BlockingBoundedByDeadline ==
    \A c \in Callers :
        (Done(c) /\ now > ctx[c]) => ~BlockedBehindFetch(c)

\* C20: in every step, a cache that holds a snapshot still holds one
\* afterwards, its fetchedAt does not decrease, and a fetchedAt that replaces
\* that of an earlier snapshot is at least cacheTTL later.
C20_CacheMonotone ==
    [][ /\ (~cache.payload.isNil) => ~cache'.payload.isNil
        /\ cache'.fetchedAt >= cache.fetchedAt
        /\ (cache'.fetchedAt # cache.fetchedAt /\ cache.fetchedAt # ZeroTime) =>
              cache'.fetchedAt - cache.fetchedAt >= cacheTTL ]_vars

\* C20 witness: a second successful refresh has replaced the first
\* snapshot, cacheTTL or more after the first one was fetched.
C20_Witness ==
    /\ okCount = 2
    /\ stampSrc = 2 /\ cache.payload.src = 2
    /\ cache.fetchedAt >= cacheTTL

====
